---------------------------- MODULE Spec2Model ----------------------------
(***************************************************************************)
(* color-anyhow: the report handler of anyhow::Error.                      *)
(*                                                                         *)
(* The module models                                                       *)
(*   - the text the renderer writes (Handler::debug, src/handler.rs) and   *)
(*     the writers it writes through (HeaderWriter, indenter::Indented,    *)
(*     IndentedSection, src/section/mod.rs);                               *)
(*   - the Section builders that attach sections to the error of a Result; *)
(*   - the capture policy at report construction;                          *)
(*   - install() and the process wide CONFIG cell (src/lib.rs);            *)
(*   - text written piece by piece through the renderer's writers, and a   *)
(*     render to a formatter whose sink fails.                             *)
(*                                                                         *)
(* Text is a sequence of tokens.  A token is a piece of text without a     *)
(* line break ("t", told apart by "n") in a foreground colour "fg"; the    *)
(* line break is the token NL.  The empty string is the empty sequence.    *)
(***************************************************************************)
EXTENDS Integers, Sequences, FiniteSets, TLC

(***************************************************************************)
(* Bounds of the model.                                                    *)
(***************************************************************************)
\* The longest chain of causes behind one error.
MaxChain == 2
\* The most builder calls made on one Result.
MaxSections == 2
\* The threads that call install(), and the calls each of them makes.
MaxThreads == 3
MaxInstalls == 2
\* The most operations (writes, acquisitions of a ready sink) made on one writer.
MaxWrites == 3
\* The most applications of make_intense to one style.
MaxApply == 2

(***************************************************************************)
(* Colours (ansi_term::Color) and the intensity transform.                 *)
(***************************************************************************)
NamedColors == <<"Black", "Red", "Green", "Yellow", "Blue", "Purple", "Cyan", "White">>

NoColor == [kind |-> "None", v |-> 0]
Named(name) == [kind |-> name, v |-> 0]
Fixed(color) == [kind |-> "Fixed", v |-> color]

NamedIndex(name) == CHOOSE i \in 1..Len(NamedColors) : NamedColors[i] = name

IsNamed(c) == \E i \in 1..Len(NamedColors) : NamedColors[i] = c.kind

RGB(r, g, b) == [kind |-> "RGB", v |-> (r * 256 + g) * 256 + b]

\* make_intense without the guard `if color < 8`: every Fixed colour is shifted.
make_intense_every_fixed(c) ==
    IF IsNamed(c) THEN Fixed(NamedIndex(c.kind) - 1 + 8)
    ELSE IF c.kind = "Fixed" THEN Fixed((c.v + 8) % 256)
    ELSE c

\* impl ColorExt for ansi_term::Color
make_intense(c) ==
    IF IsNamed(c) THEN Fixed(NamedIndex(c.kind) - 1 + 8)
    ELSE IF c.kind = "Fixed" /\ c.v < 8 THEN Fixed((c.v + 8) % 256)
    ELSE c

\* ansi_term::Style: the foreground (NoColor for None) and the other attributes.
Style(foreground, is_bold) == [foreground |-> foreground, is_bold |-> is_bold]

\* impl ColorExt for ansi_term::Style
Style_make_intense(self) ==
    IF self.foreground # NoColor
    THEN [self EXCEPT !.foreground = make_intense(self.foreground)]
    ELSE self

(***************************************************************************)
(* Text.                                                                   *)
(***************************************************************************)
Tok(t, n) == [t |-> t, n |-> n, fg |-> NoColor]
NL == Tok("\n", 0)

\* ansi_term's Colour::paint: the text in the colour.
paint(c, s) == [i \in 1..Len(s) |-> IF s[i] = NL THEN s[i] ELSE [s[i] EXCEPT !.fg = c]]

\* s.split('\n'): the lines of s, at least one.
RECURSIVE split(_)
split(s) ==
    IF \A i \in 1..Len(s) : s[i] # NL THEN <<s>>
    ELSE LET p == CHOOSE i \in 1..Len(s) :
                     s[i] = NL /\ \A j \in 1..(i - 1) : s[j] # NL
         IN  <<SubSeq(s, 1, p - 1)>> \o split(SubSeq(s, p + 1, Len(s)))

(***************************************************************************)
(* Writers.  A writer is a stack of layers: layer 1 is the Formatter the   *)
(* report is written to, and the inner writer of layer i is layer i - 1.   *)
(***************************************************************************)
(* The sink counts the write_str calls it receives (calls); its fail_at-th   *)
(* call fails (none if fail_at = 0), writes nothing and returns the error    *)
(* (err), which the callers hand on with `?`.                                *)
Formatter == [kind |-> "Formatter", buf |-> <<>>, header |-> <<>>, started |-> FALSE,
              needs_indent |-> FALSE, format |-> "", ind |-> 0, indentation |-> <<>>,
              calls |-> 0, fail_at |-> 0, failed |-> FALSE, err |-> FALSE]

\* A formatter whose k-th write fails.
FailingFormatter(k) == [Formatter EXCEPT !.fail_at = k]

\* HeaderWriter { inner, header, started: false }
HeaderWriter(header) == [Formatter EXCEPT !.kind = "HeaderWriter", !.header = header]

\* indented(f).ind(n) and indented(f).with_format(Format::Uniform { indentation })
IndentedNumbered(n) ==
    [Formatter EXCEPT !.kind = "Indented", !.needs_indent = TRUE,
                      !.format = "Numbered", !.ind = n]
IndentedUniform(indentation) ==
    [Formatter EXCEPT !.kind = "Indented", !.needs_indent = TRUE,
                      !.format = "Uniform", !.indentation = indentation]

\* Format::insert_indentation(line, f): the prefix of line number `line` of a write.
insert_indentation(w, line) ==
    IF w.format = "Uniform" THEN w.indentation
    ELSE IF line = 0 THEN <<Tok("{: >4}: ", w.ind)>>
    ELSE <<Tok("       ", 0)>>

\* A ready that hands out the sink and leaves the writer started if it was.
ready_keeps_started(ws, i) == ws

\* HeaderWriter::ready: the sink whose first non-empty write is preceded by the header.
ready(ws, i) == [ws EXCEPT ![i].started = FALSE]

RECURSIVE write_str(_, _, _)
RECURSIVE indented_lines(_, _, _, _)

\* Indented::write_str that indents each piece of text it is given, whether or
\* not the piece starts a line.
indented_lines_every_write(ws, i, lines, k) ==
    IF k > Len(lines) THEN ws
    ELSE LET line == lines[k]
             w1 == IF k > 1 THEN write_str(ws, i - 1, <<NL>>) ELSE ws
         IN  IF line = <<>>
             THEN indented_lines(w1, i, lines, k + 1)
             ELSE LET w2 == write_str(w1, i - 1, insert_indentation(w1[i], k - 1))
                  IN  indented_lines(write_str(w2, i - 1, line), i, lines, k + 1)

\* Indented::write_str, from line k of `lines` on.
indented_lines(ws, i, lines, k) ==
    IF k > Len(lines) THEN ws
    ELSE LET line == lines[k]
             w1 == IF k > 1
                   THEN [write_str(ws, i - 1, <<NL>>) EXCEPT ![i].needs_indent = TRUE]
                   ELSE ws
         IN  IF w1[i].needs_indent
             THEN IF line = <<>>
                  THEN indented_lines(w1, i, lines, k + 1)
                  ELSE LET w2 == write_str(w1, i - 1, insert_indentation(w1[i], k - 1))
                           w3 == [w2 EXCEPT ![i].needs_indent = FALSE]
                       IN  indented_lines(write_str(w3, i - 1, line), i, lines, k + 1)
             ELSE indented_lines(write_str(w1, i - 1, line), i, lines, k + 1)

\* ReadyHeaderWriter::write_str
header_write_str(ws, i, s) ==
    IF ~ws[i].started /\ s # <<>>
    THEN LET w1 == write_str(ws, i - 1, ws[i].header)
             w2 == [w1 EXCEPT ![i].started = TRUE]
         IN  write_str(w2, i - 1, s)
    ELSE write_str(ws, i - 1, s)

\* Formatter::write_str: the sink.
sink_write_str(ws, i, s) ==
    IF ws[i].calls + 1 = ws[i].fail_at
    THEN [ws EXCEPT ![i].calls = @ + 1, ![i].failed = TRUE, ![i].err = TRUE]
    ELSE [ws EXCEPT ![i].calls = @ + 1, ![i].buf = @ \o s]

\* fmt::Write::write_str on layer i of the stack.  Every write of the renderer
\* and of its writers is followed by `?`: once a write has returned the error,
\* the code after it, and so every later write, is not reached.
write_str(ws, i, s) ==
    IF ws[1].err THEN ws
    ELSE IF ws[i].kind = "Formatter" THEN sink_write_str(ws, i, s)
    ELSE IF ws[i].kind = "HeaderWriter" THEN header_write_str(ws, i, s)
    ELSE indented_lines(ws, i, split(s), 1)

\* `let _ = ...`: the result of a write is dropped, and the error with it.
swallow(ws) == [ws EXCEPT ![1].err = FALSE]

\* write!(w, "{}", s) on the innermost (top) writer.
write(ws, s) == write_str(ws, Len(ws), s)

\* The writer without its top n layers (they go out of scope).
drop(ws, n) == SubSeq(ws, 1, Len(ws) - n)


(***************************************************************************)
(* Display values and sections.                                            *)
(***************************************************************************)
\* A plain text (a &str or a String).
Str(s) == [headed |-> FALSE, header |-> <<>>, body |-> s]

\* SectionExt::header: IndentedSection { body: self, header }
header(body, h) == [headed |-> TRUE, header |-> h, body |-> body]

\* IndentedSection::fmt writing the header before it knows of a body.
IndentedSection_fmt_eager(ws, d) ==
    LET headered == Append(write(ws, d.header), HeaderWriter(<<NL>>))
        indented == Append(ready(headered, Len(headered)),
                           IndentedUniform(<<Tok("   ", 0)>>))
    IN  drop(write(indented, d.body), 2)

\* IndentedSection::fmt indenting the body by two spaces, as the backtrace is.
IndentedSection_fmt_two_spaces(ws, d) ==
    LET headered1 == Append(ws, HeaderWriter(d.header))
        headered2 == Append(ready(headered1, Len(headered1)), HeaderWriter(<<NL>>))
        indented  == Append(ready(headered2, Len(headered2)),
                            IndentedUniform(<<Tok("  ", 0)>>))
    IN  drop(write(indented, d.body), 3)

\* impl Display for IndentedSection
IndentedSection_fmt(ws, d) ==
    LET headered1 == Append(ws, HeaderWriter(d.header))
        headered2 == Append(ready(headered1, Len(headered1)), HeaderWriter(<<NL>>))
        indented  == Append(ready(headered2, Len(headered2)),
                            IndentedUniform(<<Tok("   ", 0)>>))
    IN  drop(write(indented, d.body), 3)

\* write!(w, "{}", d) for a display value d.
display(ws, d) == IF d.headed THEN IndentedSection_fmt(ws, d) ELSE write(ws, d.body)

\* HelpInfo, the kinds of section.
Kinds == {"Error", "Custom", "Note", "Warning", "Suggestion"}
HelpInfo(kind, d) == [kind |-> kind, d |-> d]

IsErrorOrCustom(s) == s.kind \in {"Error", "Custom"}

\* The fixed header of a Note, a Warning and a Suggestion: the painted kind and ": ".
label(kind) ==
    paint(make_intense(Named(IF kind = "Warning" THEN "Yellow" ELSE "Cyan")),
          <<Tok(kind, 0)>>)

\* A Display of HelpInfo that writes the label of a Note, a Warning and a
\* Suggestion through a HeaderWriter, so that an empty body prints nothing.
HelpInfo_fmt_gated(ws, s) ==
    IF IsErrorOrCustom(s) THEN display(ws, s.d)
    ELSE LET headered == Append(ws, HeaderWriter(label(s.kind) \o <<Tok(": ", 0)>>))
         IN  drop(display(headered, s.d), 1)

\* impl Display for HelpInfo
HelpInfo_fmt(ws, s) ==
    IF IsErrorOrCustom(s) THEN display(ws, s.d)
    ELSE display(write(write(ws, label(s.kind)), <<Tok(": ", 0)>>), s.d)

(***************************************************************************)
(* The error behind a report: its chain of causes, outermost first.  A     *)
(* cause may carry a SpanTrace of its own.                                  *)
(***************************************************************************)
None == [some |-> FALSE, id |-> 0]
Some(id) == [some |-> TRUE, id |-> id]

Cause(i, traced) ==
    [msg |-> <<Tok("cause", i)>>, span_trace |-> IF traced THEN Some(i) ELSE None]

\* The pre-rendered text of the collaborators.
FormattedSpanTrace(span_trace) ==
    <<Tok("SPANTRACE", span_trace.id), NL, NL, Tok("spans", span_trace.id)>>
format_backtrace(backtrace) ==
    <<Tok("BACKTRACE", backtrace.id), NL, Tok("frames", backtrace.id)>>
Debug_fmt(error) == <<Tok("{:?}", Len(error))>>

\* The search without .rev(): the SpanTrace of the outermost cause that carries one.
get_outermost_spantrace(error) ==
    LET carrying == {i \in 1..Len(error) : error[i].span_trace.some}
    IN  IF carrying = {} THEN None
        ELSE error[CHOOSE i \in carrying : \A j \in carrying : i <= j].span_trace

\* get_deepest_spantrace: the SpanTrace of the innermost cause that carries one.
get_deepest_spantrace(error) ==
    LET carrying == {i \in 1..Len(error) : error[i].span_trace.some}
    IN  IF carrying = {} THEN None
        ELSE error[CHOOSE i \in carrying : \A j \in carrying : j <= i].span_trace

(***************************************************************************)
(* Handler::debug                                                          *)
(***************************************************************************)
\* The chain as it is without the capture-spantrace filter: every cause.
errors_unfiltered(error) == error

\* Chain::new(error).filter(|e| e.span_trace().is_none())
errors(error) == SelectSeq(error, LAMBDA e : ~e.span_trace.some)

\* The loop over the chain with the line break written after each entry.
RECURSIVE write_chain_newline_after(_, _, _)
write_chain_newline_after(ws, es, k) ==
    IF k > Len(es) THEN ws
    ELSE LET w1 == write(Append(ws, IndentedNumbered(k - 1)),
                         paint(make_intense(Named("Red")), es[k].msg))
             w2 == write(drop(w1, 1), <<NL>>)
         IN  write_chain_newline_after(w2, es, k + 1)

\* The loop over the chain with the result of writeln!(f) dropped.
RECURSIVE write_chain_swallow(_, _, _)
write_chain_swallow(ws, es, k) ==
    IF k > Len(es) THEN ws
    ELSE LET w1 == swallow(write(ws, <<NL>>))
             w2 == write(Append(w1, IndentedNumbered(k - 1)),
                         paint(make_intense(Named("Red")), es[k].msg))
         IN  write_chain_swallow(drop(w2, 1), es, k + 1)

\* The loop over the numbered chain, from entry k on (n = k - 1).
RECURSIVE write_chain(_, _, _)
write_chain(ws, es, k) ==
    IF k > Len(es) THEN ws
    ELSE LET w1 == write(ws, <<NL>>)
             w2 == write(Append(w1, IndentedNumbered(k - 1)),
                         paint(make_intense(Named("Red")), es[k].msg))
         IN  write_chain(drop(w2, 1), es, k + 1)

\* The loop writing every section through the one ready sink acquired before it.
RECURSIVE write_separated_one_sink(_, _, _)
write_separated_one_sink(ws, secs, k) ==
    IF k > Len(secs) THEN ws
    ELSE write_separated_one_sink(HelpInfo_fmt(ws, secs[k]), secs, k + 1)

\* for section in ... { write!(separated.ready(), "{}", section)?; }
RECURSIVE write_separated(_, _, _)
write_separated(ws, secs, k) ==
    IF k > Len(secs) THEN ws
    ELSE write_separated(HelpInfo_fmt(ready(ws, Len(ws)), secs[k]), secs, k + 1)

\* The trailing loop with the blank-line separator of the sections before it.
RECURSIVE write_trailing_blank_line(_, _, _)
write_trailing_blank_line(ws, secs, k) ==
    IF k > Len(secs) THEN ws
    ELSE write_trailing_blank_line(HelpInfo_fmt(write(ws, <<NL, NL>>), secs[k]), secs, k + 1)

\* for section in ... { write!(f, "\n{}", section)?; }
RECURSIVE write_trailing(_, _, _)
write_trailing(ws, secs, k) ==
    IF k > Len(secs) THEN ws
    ELSE write_trailing(HelpInfo_fmt(write(ws, <<NL>>), secs[k]), secs, k + 1)

\* The span trace block.
write_span_trace(ws, handler, error) ==
    LET span_trace == IF handler.span_trace.some THEN handler.span_trace
                      ELSE get_deepest_spantrace(error)
    IN  IF span_trace.some
        THEN write(ready(ws, Len(ws)), FormattedSpanTrace(span_trace))
        ELSE ws

\* The backtrace block, and nothing in its place when there is none.
write_backtrace_or_nothing(ws, handler) ==
    IF handler.backtrace.some
    THEN LET w == Append(ready(ws, Len(ws)), IndentedUniform(<<Tok("  ", 0)>>))
         IN  drop(write(w, format_backtrace(handler.backtrace)), 1)
    ELSE ws

\* The backtrace block, or a line break in its place whatever the sections are.
write_backtrace_newline_unconditional(ws, handler) ==
    IF handler.backtrace.some
    THEN LET w == Append(ready(ws, Len(ws)), IndentedUniform(<<Tok("  ", 0)>>))
         IN  drop(write(w, format_backtrace(handler.backtrace)), 1)
    ELSE write_str(ws, 1, <<NL>>)

\* The backtrace block, or the line break that stands for it.
write_backtrace(ws, handler) ==
    IF handler.backtrace.some
    THEN LET w == Append(ready(ws, Len(ws)), IndentedUniform(<<Tok("  ", 0)>>))
         IN  drop(write(w, format_backtrace(handler.backtrace)), 1)
    ELSE IF \E k \in 1..Len(handler.sections) : ~IsErrorOrCustom(handler.sections[k])
         THEN write_str(ws, 1, <<NL>>)
         ELSE ws

\* Handler::debug with the Custom sections written before the Error sections.
debug_custom_first(handler, error, alternate) ==
    IF alternate THEN Debug_fmt(error)
    ELSE LET f == write_chain(<<Formatter>>, errors(error), 1)
             separated == Append(f, HeaderWriter(<<NL, NL>>))
             s1 == write_separated(separated,
                       SelectSeq(handler.sections, LAMBDA s : s.kind = "Custom"), 1)
             s2 == write_separated(s1,
                       SelectSeq(handler.sections, LAMBDA s : s.kind = "Error"), 1)
             s3 == write_span_trace(s2, handler, error)
             s4 == write_backtrace(s3, handler)
             s5 == write_trailing(drop(s4, 1),
                       SelectSeq(handler.sections, LAMBDA s : ~IsErrorOrCustom(s)), 1)
         IN  s5[1].buf

\* Handler::debug without the return in alternate mode: the renderer runs on.
debug_alternate_falls_through(handler, error, alternate) ==
    LET f0 == IF alternate THEN write(<<Formatter>>, Debug_fmt(error)) ELSE <<Formatter>>
        f == write_chain(f0, errors(error), 1)
        separated == Append(f, HeaderWriter(<<NL, NL>>))
        s1 == write_separated(separated,
                  SelectSeq(handler.sections, LAMBDA s : s.kind = "Error"), 1)
        s2 == write_separated(s1,
                  SelectSeq(handler.sections, LAMBDA s : s.kind = "Custom"), 1)
        s3 == write_span_trace(s2, handler, error)
        s4 == write_backtrace(s3, handler)
        s5 == write_trailing(drop(s4, 1),
                  SelectSeq(handler.sections, LAMBDA s : ~IsErrorOrCustom(s)), 1)
    IN  s5[1].buf

\* Handler::debug on the formatter f0: the formatter afterwards.
debug_on(f0, handler, error, alternate) ==
    IF alternate THEN write(<<f0>>, Debug_fmt(error))[1]
    ELSE LET f == write_chain(<<f0>>, errors(error), 1)
             separated == Append(f, HeaderWriter(<<NL, NL>>))
             s1 == write_separated(separated,
                       SelectSeq(handler.sections, LAMBDA s : s.kind = "Error"), 1)
             s2 == write_separated(s1,
                       SelectSeq(handler.sections, LAMBDA s : s.kind = "Custom"), 1)
             s3 == write_span_trace(s2, handler, error)
             s4 == write_backtrace(s3, handler)
             s5 == write_trailing(drop(s4, 1),
                       SelectSeq(handler.sections, LAMBDA s : ~IsErrorOrCustom(s)), 1)
         IN  s5[1]

\* The text Handler::debug writes to a formatter that does not fail.
debug(handler, error, alternate) == debug_on(Formatter, handler, error, alternate).buf

(***************************************************************************)
(* The capture policy: what the handler of a new report captures.          *)
(***************************************************************************)
Unset == "<unset>"

\* Span traces are captured by default; RUST_SPANTRACE=0 disables the capture.
capture_span_trace(e) == e.RUST_SPANTRACE # "0"

\* Backtrace capture decided the way span trace capture is: on unless set to 0.
backtrace_enabled_by_default(e) == e.RUST_LIB_BACKTRACE # "0"

\* RUST_LIB_BACKTRACE=1 (short) and =full (full) capture a backtrace.
backtrace_enabled(e) == e.RUST_LIB_BACKTRACE \in {"1", "full"}

\* The Handler of a new report: struct Handler { backtrace, span_trace, sections }
Handler(e) ==
    [backtrace  |-> IF backtrace_enabled(e) THEN Some(0) ELSE None,
     span_trace |-> IF capture_span_trace(e) THEN Some(0) ELSE None,
     sections   |-> <<>>]

NoHandler == [backtrace |-> None, span_trace |-> None, sections |-> <<>>]

(***************************************************************************)
(* OnceCell, the type of CONFIG.                                           *)
(***************************************************************************)
Empty == [some |-> FALSE, thread |-> 0, call |-> 0]
PanicHook(t, k) == [some |-> TRUE, thread |-> t, call |-> k]

\* A cell whose set stores every value and always succeeds.
OnceCell_set_always(cell, value) == [cell |-> value, ok |-> TRUE]

\* A cell whose set reports the conflict but stores the value all the same.
OnceCell_set_overwrite(cell, value) == [cell |-> value, ok |-> ~cell.some]

\* OnceCell::set: the cell afterwards, and whether the value was stored.
OnceCell_set(cell, value) ==
    IF cell.some THEN [cell |-> cell, ok |-> FALSE]
    ELSE [cell |-> value, ok |-> TRUE]

(***************************************************************************)
(* State.                                                                  *)
(***************************************************************************)
VARIABLES
    env,           \* the environment variables read at report construction
    pc,            \* "start", "result" (the operation returned), "formatted"
    result,        \* the Result the builders are called on
    handler,       \* the Handler inside the error of result
    ncalls,        \* builder calls made on result
    called,        \* the builder called last ("" before the first call)
    closure_runs,  \* invocations of the closures given to the with_* builders
    alternate,     \* whether the report was formatted with {:#?}
    out,           \* the text the formatting wrote
    CONFIG,        \* static CONFIG: OnceCell<config::PanicHook>
    ipc,           \* per thread: "idle", or "hooks": inside install(), hooks built
    installs,      \* per thread: install() calls begun
    ret,           \* per thread: what its install() calls returned, in order
    writer,        \* a writer: the sink and the layers that wrap it
    written,       \* the text written through the top layer of writer, in order
    wop,           \* the last operation on writer: "", "ready" or "write"
    nops,          \* operations made on writer
    original,      \* a Style as it was made
    style,         \* that Style after the applications of make_intense
    applied        \* applications of make_intense to style

reportVars == <<env, pc, result, handler, ncalls, called, closure_runs, alternate, out>>
installVars == <<CONFIG, ipc, installs, ret>>
writerVars == <<writer, written, wop, nops>>
colorVars == <<original, style, applied>>
vars == <<env, pc, result, handler, ncalls, called, closure_runs, alternate, out,
          CONFIG, ipc, installs, ret, writer, written, wop, nops,
          original, style, applied>>

Threads == 1..MaxThreads

Values == {1, 2}
Ok(v) == [ok |-> TRUE, v |-> v, error |-> <<>>]
Err(error) == [ok |-> FALSE, v |-> 0, error |-> error]

\* The environments: each variable unset or set to one of its documented values.
Envs == [RUST_SPANTRACE : {Unset, "0", "1"}, RUST_LIB_BACKTRACE : {Unset, "1", "full"}]
\* One environment for each outcome of the two capture decisions.
RenderEnvs == [RUST_SPANTRACE : {Unset, "0"}, RUST_LIB_BACKTRACE : {Unset, "1"}]

\* The chains of 1..MaxChain causes, each cause carrying a SpanTrace or not.
Chains ==
    UNION {{[i \in 1..n |-> Cause(i, traced[i])] : traced \in [1..n -> BOOLEAN]} :
           n \in 1..MaxChain}

\* What the n-th builder call may attach.
line1(n) == Tok("line1", n)
line2(n) == Tok("line2", n)
Texts(n) == {Str(<<line1(n)>>)}
TrailingValues(n) == {Str(<<>>), Str(<<line1(n)>>)}
FailValues(n) == {Str(<<line1(n)>>), header(<<line1(n), NL, line2(n)>>, <<Tok("header", n)>>)}
CustomValues(n) ==
    {Str(<<>>), Str(<<line1(n)>>),
     header(<<>>, <<Tok("header", n)>>),
     header(<<line1(n), NL, line2(n)>>, <<Tok("header", n)>>)}
ErrorValues(n) == {Str(<<Tok("error", n)>>)}

ReportInit(E) ==
    /\ env \in E
    /\ pc = "start"
    /\ result = Ok(1)
    /\ handler = NoHandler
    /\ ncalls = 0
    /\ called = ""
    /\ closure_runs = 0
    /\ alternate = FALSE
    /\ out = <<>>

InstallInit ==
    /\ CONFIG = Empty
    /\ ipc = [t \in Threads |-> "idle"]
    /\ installs = [t \in Threads |-> 0]
    /\ ret = [t \in Threads |-> <<>>]

\* The writers the renderer builds: `separated` of Handler::debug, the writer of
\* the backtrace block, the writer of a numbered chain entry, and the writer
\* IndentedSection::fmt writes the body through.
Writers ==
    {<<Formatter, HeaderWriter(<<NL, NL>>)>>,
     <<Formatter, HeaderWriter(<<NL, NL>>), IndentedUniform(<<Tok("  ", 0)>>)>>,
     <<Formatter, IndentedNumbered(0)>>,
     <<Formatter, HeaderWriter(<<Tok("header", 0)>>), HeaderWriter(<<NL>>),
       IndentedUniform(<<Tok("   ", 0)>>)>>}

\* The pieces of text one write_str call may be given.
piece == Tok("text", 0)
Chunks == {<<>>, <<piece>>, <<NL>>, <<NL, piece>>, <<piece, NL, piece>>}

\* Every ansi_term::Color: the named colours, Fixed(0..255), and RGB colours.
Colors ==
    {Named(NamedColors[i]) : i \in 1..Len(NamedColors)}
        \cup {Fixed(v) : v \in 0..255}
        \cup {RGB(0, 0, 0), RGB(0, 0, 7), RGB(1, 2, 3), RGB(255, 255, 255)}

\* The styles: no foreground or any colour as foreground, bold or not.
Styles == {Style(c, b) : c \in Colors \cup {NoColor}, b \in BOOLEAN}

ColorInit(S) ==
    /\ original \in S
    /\ style = original
    /\ applied = 0

WriterInit(W) ==
    /\ writer \in W
    /\ written = <<>>
    /\ wop = ""
    /\ nops = 0

(***************************************************************************)
(* The operation whose Result the builders are called on.                  *)
(***************************************************************************)
\* The operation fails: its error is converted, which constructs the Handler.
Fail ==
    /\ pc = "start"
    /\ \E error \in Chains : result' = Err(error)
    /\ handler' = Handler(env)
    /\ pc' = "result"
    /\ UNCHANGED <<env, ncalls, called, closure_runs, alternate, out>>
    /\ UNCHANGED installVars
    /\ UNCHANGED colorVars
    /\ UNCHANGED writerVars

Succeed ==
    /\ pc = "start"
    /\ \E v \in Values : result' = Ok(v)
    /\ pc' = "result"
    /\ UNCHANGED <<env, handler, ncalls, called, closure_runs, alternate, out>>
    /\ UNCHANGED installVars
    /\ UNCHANGED colorVars
    /\ UNCHANGED writerVars

(***************************************************************************)
(* impl Section for Result: the builders.                                  *)
(***************************************************************************)
\* A push that puts the section in front of the others.
push_front(h, section) == [h EXCEPT !.sections = <<section>> \o @]

\* self.map_err(|error| { ...sections.push(section); error })
push(h, section) == [h EXCEPT !.sections = Append(@, section)]

map_err_push(r, h, section) == IF r.ok THEN h ELSE push(h, section)

\* A with_* builder that makes the value before it looks at the receiver.
closure_calls_always(r) == 1

\* How often a with_* builder invokes its closure on receiver r.
closure_calls(r) == IF r.ok THEN 0 ELSE 1

\* A builder given the value.
eager(method, kind, D) ==
    /\ pc = "result"
    /\ ncalls < MaxSections
    /\ called' = method
    /\ \E d \in D : handler' = map_err_push(result, handler, HelpInfo(kind, d))
    /\ ncalls' = ncalls + 1
    /\ UNCHANGED <<env, pc, result, closure_runs, alternate, out>>
    /\ UNCHANGED installVars
    /\ UNCHANGED colorVars
    /\ UNCHANGED writerVars

\* A builder given a closure that makes the value.
lazy(method, kind, D) ==
    /\ pc = "result"
    /\ ncalls < MaxSections
    /\ called' = method
    /\ \E d \in D : handler' = map_err_push(result, handler, HelpInfo(kind, d))
    /\ closure_runs' = closure_runs + closure_calls(result)
    /\ ncalls' = ncalls + 1
    /\ UNCHANGED <<env, pc, result, alternate, out>>
    /\ UNCHANGED installVars
    /\ UNCHANGED colorVars
    /\ UNCHANGED writerVars

section(D) == eager("section", "Custom", D)
with_section(D) == lazy("with_section", "Custom", D)
error(D) == eager("error", "Error", D)
with_error(D) == lazy("with_error", "Error", D)
note(D) == eager("note", "Note", D)
with_note(D) == lazy("with_note", "Note", D)
warning(D) == eager("warning", "Warning", D)
with_warning(D) == lazy("with_warning", "Warning", D)
suggestion(D) == eager("suggestion", "Suggestion", D)
with_suggestion(D) == lazy("with_suggestion", "Suggestion", D)

(***************************************************************************)
(* Formatting the report: format!("{:?}", report) and {:#?}.               *)
(***************************************************************************)
FormatReport ==
    /\ pc = "result"
    /\ ~result.ok
    /\ \E alt \in BOOLEAN :
          /\ alternate' = alt
          /\ out' = debug(handler, result.error, alt)
    /\ pc' = "formatted"
    /\ UNCHANGED <<env, result, handler, ncalls, called, closure_runs>>
    /\ UNCHANGED installVars
    /\ UNCHANGED colorVars
    /\ UNCHANGED writerVars

\* The report is formatted to a formatter whose k-th write fails, for any k up
\* to the number of writes of the whole report (k = 0: no write fails).
FormatReportFailing ==
    /\ pc = "result"
    /\ ~result.ok
    /\ \E alt \in BOOLEAN :
          \E k \in 0..debug_on(Formatter, handler, result.error, alt).calls :
              LET f == debug_on(FailingFormatter(k), handler, result.error, alt)
              IN  /\ alternate' = alt
                  /\ out' = f.buf
                  /\ writer' = <<f>>
    /\ pc' = "formatted"
    /\ UNCHANGED <<env, result, handler, ncalls, called, closure_runs>>
    /\ UNCHANGED <<written, wop, nops>>
    /\ UNCHANGED installVars
    /\ UNCHANGED colorVars

(***************************************************************************)
(* install()                                                               *)
(***************************************************************************)
\* install() is entered: HookBuilder::default() and its hooks are built.
install_begin(t) ==
    /\ ipc[t] = "idle"
    /\ installs[t] < MaxInstalls
    /\ installs' = [installs EXCEPT ![t] = @ + 1]
    /\ ipc' = [ipc EXCEPT ![t] = "hooks"]
    /\ UNCHANGED <<CONFIG, ret>>
    /\ UNCHANGED reportVars
    /\ UNCHANGED writerVars
    /\ UNCHANGED colorVars

\* The hooks are stored in CONFIG, or the call fails; install() returns.
install_set(t) ==
    /\ ipc[t] = "hooks"
    /\ LET r == OnceCell_set(CONFIG, PanicHook(t, installs[t]))
       IN  /\ CONFIG' = r.cell
           /\ ret' = [ret EXCEPT ![t] = Append(@, IF r.ok THEN "Ok" ELSE "Err")]
    /\ ipc' = [ipc EXCEPT ![t] = "idle"]
    /\ UNCHANGED installs
    /\ UNCHANGED reportVars
    /\ UNCHANGED writerVars
    /\ UNCHANGED colorVars

(***************************************************************************)
(* Writing through a writer.                                               *)
(***************************************************************************)
\* write_str(s) on the top layer of writer.
WriteStr ==
    /\ nops < MaxWrites
    /\ \E s \in Chunks :
          /\ writer' = write(writer, s)
          /\ written' = written \o s
    /\ wop' = "write"
    /\ nops' = nops + 1
    /\ UNCHANGED reportVars
    /\ UNCHANGED installVars
    /\ UNCHANGED colorVars

\* separated.ready(): a ready sink is acquired from the HeaderWriter on the sink.
Ready ==
    /\ nops < MaxWrites
    /\ Len(writer) = 2
    /\ writer[2].kind = "HeaderWriter"
    /\ writer' = ready(writer, 2)
    /\ wop' = "ready"
    /\ nops' = nops + 1
    /\ UNCHANGED written
    /\ UNCHANGED reportVars
    /\ UNCHANGED installVars
    /\ UNCHANGED colorVars

(***************************************************************************)
(* The intensity transform applied to a style.                             *)
(***************************************************************************)
\* style.make_intense()
MakeIntense ==
    /\ applied < MaxApply
    /\ style' = Style_make_intense(style)
    /\ applied' = applied + 1
    /\ UNCHANGED original
    /\ UNCHANGED reportVars
    /\ UNCHANGED installVars
    /\ UNCHANGED writerVars

(***************************************************************************)
(* Specifications.                                                         *)
(***************************************************************************)
\* A report is built with the builders given values, and formatted.
Init == ReportInit(RenderEnvs) /\ InstallInit /\ WriterInit({<<Formatter>>}) /\ ColorInit({Style(NoColor, FALSE)})

Next ==
    \/ Fail
    \/ Succeed
    \/ section(CustomValues(ncalls + 1))
    \/ error(ErrorValues(ncalls + 1))
    \/ note(TrailingValues(ncalls + 1))
    \/ warning(TrailingValues(ncalls + 1))
    \/ suggestion(TrailingValues(ncalls + 1))
    \/ FormatReport

Spec == Init /\ [][Next]_vars

\* A report is constructed in any environment and the builders, given values or
\* closures, are called on the Result.
InitBuild == ReportInit(Envs) /\ InstallInit /\ WriterInit({<<Formatter>>}) /\ ColorInit({Style(NoColor, FALSE)})

NextBuild ==
    \/ Fail
    \/ Succeed
    \/ section(Texts(ncalls + 1))
    \/ with_section(Texts(ncalls + 1))
    \/ error(ErrorValues(ncalls + 1))
    \/ with_error(ErrorValues(ncalls + 1))
    \/ note(Texts(ncalls + 1))
    \/ with_note(Texts(ncalls + 1))
    \/ warning(Texts(ncalls + 1))
    \/ with_warning(Texts(ncalls + 1))
    \/ suggestion(Texts(ncalls + 1))
    \/ with_suggestion(Texts(ncalls + 1))

SpecBuild == InitBuild /\ [][NextBuild]_vars

\* Threads call install().
InitInstall ==
    /\ ReportInit({[RUST_SPANTRACE |-> Unset, RUST_LIB_BACKTRACE |-> Unset]})
    /\ InstallInit
    /\ WriterInit({<<Formatter>>}) /\ ColorInit({Style(NoColor, FALSE)})

NextInstall == \E t \in Threads : install_begin(t) \/ install_set(t)

SpecInstall == InitInstall /\ [][NextInstall]_vars

\* A report is built and formatted to a formatter that may fail.
InitFail == ReportInit(RenderEnvs) /\ InstallInit /\ WriterInit({<<Formatter>>}) /\ ColorInit({Style(NoColor, FALSE)})

NextFail ==
    \/ Fail
    \/ Succeed
    \/ section(FailValues(ncalls + 1))
    \/ error(ErrorValues(ncalls + 1))
    \/ note(Texts(ncalls + 1))
    \/ FormatReportFailing

SpecFail == InitFail /\ [][NextFail]_vars

\* Text is written, piece by piece, through one of the renderer's writers.
InitWriter ==
    /\ ReportInit({[RUST_SPANTRACE |-> Unset, RUST_LIB_BACKTRACE |-> Unset]})
    /\ InstallInit
    /\ WriterInit(Writers)
    /\ ColorInit({Style(NoColor, FALSE)})

NextWriter == WriteStr \/ Ready

SpecWriter == InitWriter /\ [][NextWriter]_vars

\* make_intense is applied, again and again, to any style.
InitColor ==
    /\ ReportInit({[RUST_SPANTRACE |-> Unset, RUST_LIB_BACKTRACE |-> Unset]})
    /\ InstallInit
    /\ WriterInit({<<Formatter>>})
    /\ ColorInit(Styles)

NextColor == MakeIntense

SpecColor == InitColor /\ [][NextColor]_vars

(***************************************************************************)
(* Properties.                                                             *)
(***************************************************************************)
Range(s) == {s[i] : i \in DOMAIN s}

\* The report was formatted by the renderer ({:?}).
Rendered == pc = "formatted" /\ ~alternate

\* The positions of the output that hold the text of the k-th attached section, of
\* the numbered chain, of the span trace block and of the backtrace block.
SectionPos(k) ==
    {i \in DOMAIN out : out[i].n = k /\ out[i].t \in {"line1", "line2", "header", "error"}}
ChainPos == {i \in DOMAIN out : out[i].t \in {"cause", "{: >4}: "}}
SpanTracePos == {i \in DOMAIN out : out[i].t \in {"SPANTRACE", "spans"}}
BacktracePos == {i \in DOMAIN out : out[i].t \in {"BACKTRACE", "frames"}}

Precedes(A, B) == \A i \in A, j \in B : i < j

\* The group a section is rendered in: Error, Custom, and after the trace blocks.
Group(s) == IF s.kind = "Error" THEN 1 ELSE IF s.kind = "Custom" THEN 2 ELSE 3

IsEmptyHeaded(s) == s.kind = "Custom" /\ s.d.headed /\ s.d.body = <<>>

(* C1: a Custom section body.header(h) whose body is empty text leaves no   *)
(* trace of h in the formatted report, whatever else the report holds.      *)
C1_EmptyBodyPrintsNoHeader ==
    pc = "formatted" =>
        \A k \in DOMAIN handler.sections :
            IsEmptyHeaded(handler.sections[k]) =>
                Range(handler.sections[k].d.header) \cap Range(out) = {}

\* A rendered report with an empty headed section beside a headed section that
\* was printed with its header.
C1_Witness ==
    /\ Rendered
    /\ \E k \in DOMAIN handler.sections : IsEmptyHeaded(handler.sections[k])
    /\ \E j \in DOMAIN handler.sections :
          /\ handler.sections[j].d.headed
          /\ handler.sections[j].d.body # <<>>
          /\ Range(handler.sections[j].d.header) \subseteq Range(out)

(* C2: the output holds the numbered chain, then the Error sections, then   *)
(* the Custom sections, then the span trace block, then the backtrace       *)
(* block, then the Note/Warning/Suggestion sections; inside each of the     *)
(* three groups of sections the order is the order of attachment; and       *)
(* every part that has text is there.                                       *)
C2_OutputOrder ==
    Rendered =>
        LET S == handler.sections
            blocks == SpanTracePos \cup BacktracePos
        IN  /\ \A k \in DOMAIN S : Precedes(ChainPos, SectionPos(k))
            /\ Precedes(ChainPos, blocks)
            /\ \A j, k \in DOMAIN S :
                  (Group(S[j]) < Group(S[k]) \/ (Group(S[j]) = Group(S[k]) /\ j < k))
                      => Precedes(SectionPos(j), SectionPos(k))
            /\ \A k \in DOMAIN S :
                  IF IsErrorOrCustom(S[k]) THEN Precedes(SectionPos(k), blocks)
                  ELSE Precedes(blocks, SectionPos(k))
            /\ Precedes(SpanTracePos, BacktracePos)
            /\ \A k \in DOMAIN S : S[k].d.body # <<>> => SectionPos(k) # {}
            /\ errors(result.error) # <<>> => ChainPos # {}
            /\ handler.span_trace.some => SpanTracePos # {}
            /\ handler.backtrace.some => BacktracePos # {}

\* A rendered report with both trace blocks whose first section is a trailing one
\* and whose second is an Error or Custom section with text.
C2_Witness ==
    /\ Rendered
    /\ Len(handler.sections) >= 2
    /\ ~IsErrorOrCustom(handler.sections[1])
    /\ IsErrorOrCustom(handler.sections[2])
    /\ handler.sections[2].d.body # <<>>
    /\ handler.span_trace.some
    /\ handler.backtrace.some
    /\ ChainPos # {}

LazyBuilders == {"with_section", "with_error", "with_note", "with_warning", "with_suggestion"}

\* The kind of section each builder attaches.
MethodKind ==
    [section |-> "Custom", with_section |-> "Custom", error |-> "Error",
     with_error |-> "Error", note |-> "Note", with_note |-> "Note",
     warning |-> "Warning", with_warning |-> "Warning",
     suggestion |-> "Suggestion", with_suggestion |-> "Suggestion"]

\* This step is a call of a builder.
BuilderCall == ncalls' = ncalls + 1

(* C3: a call of with_section, with_error, with_note, with_warning or        *)
(* with_suggestion on Ok(v) does not invoke the closure and returns Ok(v);   *)
(* on Err it invokes the closure exactly once and returns Err.               *)
C3_LazyBuilders ==
    [][(BuilderCall /\ called' \in LazyBuilders) =>
          IF result.ok
          THEN closure_runs' = closure_runs /\ result' = result /\ result'.ok
          ELSE closure_runs' = closure_runs + 1 /\ ~result'.ok]_vars

\* Two builder calls were made on an Ok, the last a with_note, and no closure ran.
C3_Witness ==
    /\ pc = "result"
    /\ result.ok
    /\ ncalls >= 2
    /\ called = "with_note"
    /\ closure_runs = 0

(* C4: a builder call on an Err appends exactly one section, of the kind of  *)
(* the builder and holding the value of this call, behind the sections       *)
(* attached before, which stay as they were, as do the captured span trace   *)
(* and backtrace; so the list is the attached sections in call order, and no *)
(* step of the report shrinks or reorders it.                                *)
C4_SectionsAppendOnly ==
    [][/\ (BuilderCall /\ ~result.ok) =>
             LET S == handler'.sections
             IN  /\ Len(S) = Len(handler.sections) + 1
                 /\ SubSeq(S, 1, Len(S) - 1) = handler.sections
                 /\ S[Len(S)].kind = MethodKind[called']
                 /\ S[Len(S)].d.body[1].n = ncalls'
                 /\ \A k \in DOMAIN S : S[k].d.body[1].n = k
                 /\ handler'.span_trace = handler.span_trace
                 /\ handler'.backtrace = handler.backtrace
       /\ pc # "start" =>
             /\ Len(handler'.sections) >= Len(handler.sections)
             /\ SubSeq(handler'.sections, 1, Len(handler.sections)) = handler.sections]_vars

\* Two sections of different kinds were attached to a report that captured a span trace.
C4_Witness ==
    /\ pc = "result"
    /\ ~result.ok
    /\ Len(handler.sections) >= 2
    /\ handler.sections[1].kind # handler.sections[2].kind
    /\ handler.span_trace.some

\* The install() calls that returned Ok.
Succeeded == {c \in Threads \X (1..MaxInstalls) : c[2] <= Len(ret[c[1]]) /\ ret[c[1]][c[2]] = "Ok"}
Returned == {c \in Threads \X (1..MaxInstalls) : c[2] <= Len(ret[c[1]])}

\* Thread t's install() returns in this step.
Returns(t) == Len(ret'[t]) = Len(ret[t]) + 1

(* C5: an install() call returns Ok if and only if no install() call has     *)
(* succeeded before it (so the first one succeeds and every later one fails   *)
(* as already installed), and a call that fails leaves CONFIG as it was.      *)
C5_InstallOnce ==
    [][\A t \in Threads :
          Returns(t) =>
             LET r == ret'[t][Len(ret'[t])]
             IN  /\ r = "Ok" <=> Succeeded = {}
                 /\ Returned = {} => r = "Ok"
                 /\ r = "Err" => CONFIG' = CONFIG /\ CONFIG.some]_vars

\* One thread called install() twice: the first call succeeded, the second failed.
C5_Witness == \E t \in Threads : ret[t] = <<"Ok", "Err">>

(* C6: with install() called from several threads, in every interleaving at  *)
(* most one call succeeds, exactly one once any call has returned, CONFIG    *)
(* holds the hooks of the call that succeeded, and once CONFIG is set no     *)
(* step changes it.                                                          *)
C6_ConcurrentInstall ==
    /\ [](/\ Cardinality(Succeeded) <= 1
          /\ Returned # {} => Cardinality(Succeeded) = 1
          /\ CONFIG.some <=> Succeeded # {}
          /\ \A c \in Succeeded : CONFIG = PanicHook(c[1], c[2]))
    /\ [][CONFIG.some => CONFIG' = CONFIG]_vars

\* Two threads were inside install() together: one has won, one has lost, and a
\* third is still inside.
C6_Witness ==
    \E t, u, w \in Threads :
        /\ ret[t] = <<"Ok">> /\ installs[t] = 1
        /\ ret[u] = <<"Err">> /\ installs[u] = 1
        /\ ipc[w] = "hooks"

\* A report has been constructed.
Constructed == pc # "start" /\ ~result.ok

(* C7 as claimed: a span trace is captured iff RUST_SPANTRACE is neither     *)
(* unset nor "0", and a backtrace iff RUST_LIB_BACKTRACE is "1" or "full".   *)
C7_AsClaimed ==
    Constructed =>
        /\ handler.span_trace.some <=> env.RUST_SPANTRACE \notin {Unset, "0"}
        /\ handler.backtrace.some <=> env.RUST_LIB_BACKTRACE \in {"1", "full"}

(* C7, amended: a span trace is captured iff RUST_SPANTRACE is not "0", an   *)
(* unset variable included; a backtrace is captured iff RUST_LIB_BACKTRACE   *)
(* is "1" or "full", and none when it is unset, whatever RUST_SPANTRACE is.  *)
C7_CapturePolicy ==
    Constructed =>
        /\ handler.span_trace.some <=> env.RUST_SPANTRACE # "0"
        /\ handler.backtrace.some <=> env.RUST_LIB_BACKTRACE \in {"1", "full"}
        /\ env.RUST_LIB_BACKTRACE = Unset => ~handler.backtrace.some

\* A report constructed with neither variable set: a span trace and no backtrace.
C7_Witness ==
    /\ Constructed
    /\ env.RUST_SPANTRACE = Unset
    /\ env.RUST_LIB_BACKTRACE = Unset
    /\ handler.span_trace.some
    /\ ~handler.backtrace.some

\* The text h, and after it each line in a line of its own behind three spaces.
RECURSIVE IndentedBelow(_, _, _)
IndentedBelow(h, lines, k) ==
    IF k > Len(lines) THEN h
    ELSE IndentedBelow(h \o <<NL, Tok("   ", 0)>> \o lines[k], lines, k + 1)

HasLines(body) == body # <<>> /\ \A k \in DOMAIN split(body) : split(body)[k] # <<>>

(* C8: a report whose k-th section is the Custom section body.header(h),     *)
(* the lines of body not empty, is rendered as the same report with the      *)
(* plain text "h\n   line\n   line..." as its k-th section.                  *)
C8_HeaderIsIndentedText ==
    Rendered =>
        \A k \in DOMAIN handler.sections :
            LET s == handler.sections[k]
                text == IndentedBelow(s.d.header, split(s.d.body), 1)
                plain == [handler EXCEPT !.sections[k] = HelpInfo("Custom", Str(text))]
            IN  (s.kind = "Custom" /\ s.d.headed /\ HasLines(s.d.body)) =>
                    out = debug(plain, result.error, FALSE)

\* A rendered report with a headed section of two lines, printed under its header.
C8_Witness ==
    /\ Rendered
    /\ \E k \in DOMAIN handler.sections :
          LET s == handler.sections[k]
          IN  /\ s.kind = "Custom" /\ s.d.headed
              /\ Len(split(s.d.body)) = 2 /\ HasLines(s.d.body)
              /\ Range(s.d.header) \subseteq Range(out)

\* No span trace is there to render: none captured, none carried by a cause.
NoSpanTrace ==
    /\ ~handler.span_trace.some
    /\ \A i \in DOMAIN result.error : ~result.error[i].span_trace.some

IntenseRed == Fixed(9)
IntenseCyan == Fixed(14)

(* C9: with no sections, no span trace and no backtrace the rendering is,    *)
(* for each cause i = 0..n in order, a line break, the right-aligned index   *)
(* i and the message of the cause (in intense red), and nothing else.        *)
C9_ChainOnly ==
    (Rendered /\ handler.sections = <<>> /\ NoSpanTrace /\ ~handler.backtrace.some) =>
        /\ Len(out) = 3 * Len(result.error)
        /\ \A i \in DOMAIN result.error :
              /\ out[3 * i - 2] = NL
              /\ out[3 * i - 1] = Tok("{: >4}: ", i - 1)
              /\ out[3 * i] = [t |-> "cause", n |-> i, fg |-> IntenseRed]

\* A chain of two causes rendered with no sections and no traces.
C9_Witness ==
    /\ Rendered
    /\ handler.sections = <<>>
    /\ NoSpanTrace
    /\ ~handler.backtrace.some
    /\ Len(result.error) >= 2
    /\ out # <<>>

\* The report has no trace blocks, and Error/Custom sections followed by one Suggestion.
SectionsThenSuggestion ==
    /\ Rendered
    /\ NoSpanTrace
    /\ ~handler.backtrace.some
    /\ Len(handler.sections) >= 2
    /\ handler.sections[Len(handler.sections)].kind = "Suggestion"
    /\ \A k \in 1..(Len(handler.sections) - 1) : IsErrorOrCustom(handler.sections[k])

\* "\nSuggestion: <body>" for the last section.
SuggestionLine ==
    <<NL, [t |-> "Suggestion", n |-> 0, fg |-> IntenseCyan], Tok(": ", 0)>>
        \o handler.sections[Len(handler.sections)].d.body

EndsWith(s, t) == Len(s) >= Len(t) /\ SubSeq(s, Len(s) - Len(t) + 1, Len(s)) = t

C11_AlternateIsRawDebug ==
    (pc = "formatted" /\ alternate) =>
        /\ out = Debug_fmt(result.error)
        /\ ChainPos = {} /\ SpanTracePos = {} /\ BacktracePos = {}
        /\ \A k \in DOMAIN handler.sections : SectionPos(k) = {}
        /\ \A i \in DOMAIN out : out[i] # NL /\ out[i].t \notin Kinds

\* A report with a chain, sections of both groups with text and both traces
\* captured, formatted in alternate mode.
C11_Witness ==
    /\ pc = "formatted" /\ alternate
    /\ Len(result.error) >= 2
    /\ handler.span_trace.some /\ handler.backtrace.some
    /\ \E j, k \in DOMAIN handler.sections :
          /\ IsErrorOrCustom(handler.sections[j]) /\ handler.sections[j].d.body # <<>>
          /\ ~IsErrorOrCustom(handler.sections[k])
    /\ out # <<>>

\* The Note, Warning and Suggestion sections, in attachment order.
TrailingSections == SelectSeq(handler.sections, LAMBDA s : ~IsErrorOrCustom(s))

\* "\n<Kind>: <body>" with the kind in its colour.
TrailingLine(s) ==
    <<NL, [t |-> s.kind, n |-> 0,
           fg |-> IF s.kind = "Warning" THEN Fixed(11) ELSE IntenseCyan],
      Tok(": ", 0)>> \o s.d.body

RECURSIVE TrailingText(_, _)
TrailingText(secs, k) ==
    IF k > Len(secs) THEN <<>> ELSE TrailingLine(secs[k]) \o TrailingText(secs, k + 1)

(* C12: the output ends with the Note, Warning and Suggestion sections in    *)
(* the order they were attached, whatever their kinds, each as one line      *)
(* break, its fixed header and its body; from the first of these headers on  *)
(* no two line breaks are adjacent, so no blank line stands between two      *)
(* consecutive trailing sections.                                            *)
C12_TrailingSections ==
    Rendered =>
        LET T == TrailingText(TrailingSections, 1)
        IN  /\ EndsWith(out, T)
            /\ \A i \in (Len(out) - Len(T) + 1)..(Len(out) - 1) :
                  ~(out[i] = NL /\ out[i + 1] = NL)

\* A rendered report whose trailing sections are of two kinds, attached in an
\* order no grouping by kind (Note, Warning, Suggestion) would give.
C12_Witness ==
    /\ Rendered
    /\ Len(TrailingSections) >= 2
    /\ TrailingSections[1].kind \in {"Warning", "Suggestion"}
    /\ TrailingSections[2].kind = "Note"
    /\ SectionPos(1) # {} /\ SectionPos(2) # {}

\* The causes of the error that carry no SpanTrace, and the j-th of them.
Kept == {i \in DOMAIN result.error : ~result.error[i].span_trace.some}
KeptAt(j) == CHOOSE i \in Kept : Cardinality({h \in Kept : h < i}) = j - 1

\* The index and message tokens of the output, in output order.
ChainTokens == SelectSeq(out, LAMBDA x : x.t \in {"cause", "{: >4}: "})

(* C13: the numbered chain holds one entry for each cause that carries no     *)
(* SpanTrace and none for a cause that carries one; the entries are in chain  *)
(* order, outermost first, and the j-th entry has index j - 1, so the indices *)
(* are 0, 1, 2, ... without gaps and their number is the length of the chain  *)
(* minus the number of excluded causes.                                       *)
C13_ChainNumbering ==
    Rendered =>
        LET excluded == {i \in DOMAIN result.error : result.error[i].span_trace.some}
            entries == Len(result.error) - Cardinality(excluded)
        IN  /\ Len(ChainTokens) = 2 * entries
            /\ \A j \in 1..entries :
                  /\ ChainTokens[2 * j - 1] = Tok("{: >4}: ", j - 1)
                  /\ ChainTokens[2 * j].t = "cause"
                  /\ ChainTokens[2 * j].n = KeptAt(j)
            /\ \A i \in excluded, p \in DOMAIN out :
                  ~(out[p].t = "cause" /\ out[p].n = i)

\* A rendered chain whose outermost cause carries a SpanTrace and is left out:
\* index 0 goes to the second cause.
C13_Witness ==
    /\ Rendered
    /\ Len(result.error) >= 2
    /\ result.error[1].span_trace.some
    /\ ~result.error[2].span_trace.some
    /\ Len(ChainTokens) >= 2
    /\ ChainTokens[1].n = 0 /\ ChainTokens[2].n = 2

\* The top layer of the writer indents uniformly (a section body, the backtrace).
UniformTop ==
    /\ writer[Len(writer)].kind = "Indented"
    /\ writer[Len(writer)].format = "Uniform"

\* The headers of the HeaderWriter layers under the top layer, outermost first.
RECURSIVE Headers(_)
Headers(i) ==
    IF i >= Len(writer) THEN <<>>
    ELSE (IF writer[i].kind = "HeaderWriter" THEN writer[i].header ELSE <<>>)
             \o Headers(i + 1)

\* The lines from the k-th on, one below the other, behind the indentation;
\* an empty line stands bare if it is the last or if blank_bare.
RECURSIVE Below(_, _, _, _)
Below(lines, k, indentation, blank_bare) ==
    IF k > Len(lines) THEN <<>>
    ELSE (IF k > 1 THEN <<NL>> ELSE <<>>)
             \o (IF lines[k] = <<>> /\ (blank_bare \/ k = Len(lines))
                 THEN <<>> ELSE indentation \o lines[k])
             \o Below(lines, k + 1, indentation, blank_bare)

\* What reached the sink is the headers, if anything was written, and then body.
SinkHolds(body) == writer[1].buf = IF body = <<>> THEN <<>> ELSE Headers(1) \o body

SectionText(s) ==
    IF ~s.d.headed \/ s.d.body = <<>> THEN s.d.body
    ELSE s.d.header \o <<NL>> \o Below(split(s.d.body), 1, <<Tok("   ", 0)>>, TRUE)

\* The Error sections and then the Custom sections, each in attachment order.
ErrorThenCustom ==
    SelectSeq(handler.sections, LAMBDA s : s.kind = "Error")
        \o SelectSeq(handler.sections, LAMBDA s : s.kind = "Custom")

\* Each section of secs that renders non-empty text, behind one blank line.
RECURSIVE Separated(_, _)
Separated(secs, k) ==
    IF k > Len(secs) THEN <<>>
    ELSE (IF SectionText(secs[k]) = <<>> THEN <<>>
          ELSE <<NL, NL>> \o SectionText(secs[k])) \o Separated(secs, k + 1)

\* The blank lines of s: the positions of a line break that follows a line break.
BlankLines(s) == {i \in 2..Len(s) : s[i - 1] = NL /\ s[i] = NL}

(* C15: right behind the numbered chain the output holds, for each Error and *)
(* then each Custom section that renders non-empty text, one blank line and  *)
(* the text of the section, the same for both kinds; a section that renders  *)
(* empty text adds nothing; so this region holds as many blank lines as      *)
(* there are non-empty Error and Custom sections.                            *)
C15_BlankLineSeparators ==
    Rendered =>
        LET c == 3 * Cardinality(Kept)
            E == Separated(ErrorThenCustom, 1)
            region == SubSeq(out, c + 1, c + Len(E))
            nonempty == {k \in DOMAIN ErrorThenCustom :
                            SectionText(ErrorThenCustom[k]) # <<>>}
        IN  /\ Len(out) >= c + Len(E)
            /\ region = E
            /\ Cardinality(BlankLines(region)) = Cardinality(nonempty)
            /\ \A i \in BlankLines(region) : i + 1 <= Len(region) /\ region[i + 1] # NL
            /\ (c > 0 /\ E # <<>>) => out[c] # NL

\* A rendered report with a Custom section of two lines under its header, attached
\* first, and an Error section: two blank lines, the Error section first.
C15_Witness ==
    /\ Rendered
    /\ Len(handler.sections) >= 2
    /\ handler.sections[1].kind = "Custom" /\ handler.sections[1].d.headed
    /\ handler.sections[1].d.body # <<>>
    /\ handler.sections[2].kind = "Error"
    /\ Cardinality(Kept) >= 1
    /\ Cardinality(BlankLines(SubSeq(out, 1, 3 * Cardinality(Kept)
                                  + Len(Separated(ErrorThenCustom, 1))))) = 2

\* The writer is a HeaderWriter right on the sink, as `separated` is.
OnSink == Len(writer) = 2 /\ writer[2].kind = "HeaderWriter"

\* The text the step writes through the top layer.
Written == SubSeq(written', Len(written) + 1, Len(written'))

(* C16 as claimed: once the HeaderWriter is started no step makes it          *)
(* unstarted again, acquiring a ready sink from it included.                  *)
C16_AsClaimed == [][(OnSink /\ writer[2].started) => writer'[2].started]_vars

(* C16, amended: the HeaderWriter becomes started only by the first non-empty *)
(* write through a ready sink, which puts the header and then the text on the *)
(* sink; while it is started, writes put their text on the sink and no        *)
(* header; and it becomes unstarted only when a ready sink is acquired again, *)
(* which writes nothing, so that the next non-empty write through that sink   *)
(* emits the header once more.                                                *)
C16_HeaderWriterStates ==
    [][OnSink =>
          /\ wop' = "write" =>
                IF ~writer[2].started /\ Written # <<>>
                THEN /\ writer'[2].started
                     /\ writer'[1].buf = writer[1].buf \o writer[2].header \o Written
                ELSE /\ writer'[2].started = writer[2].started
                     /\ writer'[1].buf = writer[1].buf \o Written
          /\ wop' = "ready" =>
                /\ ~writer'[2].started
                /\ writer'[1].buf = writer[1].buf
          /\ (~writer[2].started /\ writer'[2].started) => (wop' = "write" /\ Written # <<>>)
          /\ (writer[2].started /\ ~writer'[2].started) => wop' = "ready"]_vars

\* Text was written through a ready sink, a ready sink was acquired again and text
\* was written through it: the header is on the sink twice.
C16_Witness ==
    /\ OnSink
    /\ nops >= 3
    /\ wop = "write"
    /\ writer[2].started
    /\ writer[1].buf = <<NL, NL, piece, NL, NL, piece>>

\* The numbered chain: for the j-th kept cause a line break, the index j - 1 and
\* the message in intense red.
RECURSIVE ChainText(_)
ChainText(j) ==
    IF j > Cardinality(Kept) THEN <<>>
    ELSE <<NL, Tok("{: >4}: ", j - 1),
           [t |-> "cause", n |-> KeptAt(j), fg |-> IntenseRed]>> \o ChainText(j + 1)

\* The span trace the report shows: its own, else that of the innermost cause
\* that carries one, else none.
Carrying == {i \in DOMAIN result.error : result.error[i].span_trace.some}
ShownSpanTrace ==
    IF handler.span_trace.some THEN handler.span_trace
    ELSE IF Carrying = {} THEN None
    ELSE result.error[CHOOSE i \in Carrying : \A j \in Carrying : j <= i].span_trace

\* The span trace block and the backtrace block, each behind one blank line.
SpanTraceText ==
    IF ShownSpanTrace.some THEN <<NL, NL>> \o FormattedSpanTrace(ShownSpanTrace) ELSE <<>>
BacktraceText ==
    IF handler.backtrace.some
    THEN <<NL, NL>> \o Below(split(format_backtrace(handler.backtrace)), 1,
                             <<Tok("  ", 0)>>, TRUE)
    ELSE <<>>

\* All the renderer writes before the newline in question and the trailing sections.
Blocks == ChainText(1) \o Separated(ErrorThenCustom, 1) \o SpanTraceText \o BacktraceText

(* C17: the output is the chain, the Error and Custom sections and the trace  *)
(* blocks, then one extra line break exactly if no backtrace was captured and *)
(* the report has a Note, Warning or Suggestion section, then the trailing    *)
(* sections; with only Error and Custom sections, or with a backtrace, no     *)
(* extra line break is written.                                               *)
C17_ExtraNewline ==
    Rendered =>
        LET T == TrailingText(TrailingSections, 1)
            extra == IF ~handler.backtrace.some /\ TrailingSections # <<>>
                     THEN <<NL>> ELSE <<>>
        IN  /\ out = Blocks \o extra \o T
            /\ (handler.backtrace.some \/ TrailingSections = <<>>) =>
                  Len(out) = Len(Blocks) + Len(T)
            /\ Blocks # <<>> /\ Blocks[Len(Blocks)] # NL

\* A rendered report without backtrace, with a Warning attached before a Custom
\* section that has text: the extra line break stands between the two.
C17_Witness ==
    /\ Rendered
    /\ ~handler.backtrace.some
    /\ Len(handler.sections) >= 2
    /\ handler.sections[1].kind = "Warning"
    /\ handler.sections[2].kind = "Custom" /\ handler.sections[2].d.body # <<>>
    /\ Len(out) > Len(Blocks) + 1
    /\ out[Len(Blocks) + 1] = NL /\ out[Len(Blocks) + 2] = NL

\* The positions of the output that hold the label of a Note, Warning or Suggestion.
LabelPos == {i \in DOMAIN out : out[i].t \in {"Note", "Warning", "Suggestion"}}

TitlePos == {i \in DOMAIN out : out[i].t = "SPANTRACE"}

(* C19: the output holds at most one span trace block: that of the trace the  *)
(* report captured itself if it captured one, whatever the causes carry; else *)
(* that of the innermost cause of the chain that carries one; and none if     *)
(* neither the report nor a cause has one.  The block holds the spans of that *)
(* trace and of no other.                                                     *)
C19_OneSpanTraceBlock ==
    Rendered =>
        /\ Cardinality(TitlePos) <= 1
        /\ handler.span_trace.some =>
              \E i \in TitlePos : out[i].n = handler.span_trace.id
        /\ (~handler.span_trace.some /\ Carrying # {}) =>
              \E i \in TitlePos :
                  /\ result.error[out[i].n].span_trace = Some(out[i].n)
                  /\ \A j \in Carrying : j <= out[i].n
        /\ (~handler.span_trace.some /\ Carrying = {}) => TitlePos = {}
        /\ \A i \in TitlePos, p \in DOMAIN out : out[p].t = "spans" => out[p].n = out[i].n
        /\ Cardinality({p \in DOMAIN out : out[p].t = "spans"}) = Cardinality(TitlePos)

\* A rendered report that captured no span trace itself, whose two outermost
\* causes both carry one: the block is that of the inner of the two.
C19_Witness ==
    /\ Rendered
    /\ ~handler.span_trace.some
    /\ Len(result.error) >= 2
    /\ result.error[1].span_trace.some
    /\ result.error[2].span_trace.some
    /\ TitlePos # {}

IsPrefix(s, t) == Len(s) <= Len(t) /\ SubSeq(t, 1, Len(s)) = s

\* The formatter the report was formatted to.
Sink == writer[1]

(* C20: when the k-th write to the sink fails during a render that is not in  *)
(* alternate mode, the render returns the error, the failing write is the     *)
(* last write the sink receives (no later write, no retry), and the output is *)
(* the part of the report written before it: a proper prefix of the report,   *)
(* with nothing of what comes after the failing write.  When no write fails   *)
(* the render returns Ok and the output is the whole report.                  *)
C20_WriteFailureAborts ==
    (pc = "formatted" /\ ~alternate) =>
        LET full == debug(handler, result.error, FALSE)
        IN  /\ out = Sink.buf
            /\ Sink.fail_at > 0 =>
                  /\ Sink.failed /\ Sink.err
                  /\ Sink.calls = Sink.fail_at
                  /\ IsPrefix(out, full)
                  /\ out # full
            /\ Sink.fail_at = 0 => (~Sink.failed /\ ~Sink.err /\ out = full)

\* A render that failed after it had written the chain and text of a section,
\* with a trace block and a Note still to be written.
C20_Witness ==
    /\ pc = "formatted" /\ ~alternate
    /\ Sink.failed
    /\ Sink.fail_at > 4
    /\ \E k \in DOMAIN handler.sections : SectionPos(k) # {}
    /\ \E k \in DOMAIN handler.sections : handler.sections[k].kind = "Note"
    /\ handler.backtrace.some
    /\ BacktracePos = {}
    /\ LabelPos = {}

\* The place of a named colour among the named colours, from 0.
PaletteIndex(c) ==
    CASE c.kind = "Black" -> 0 [] c.kind = "Red" -> 1 [] c.kind = "Green" -> 2
      [] c.kind = "Yellow" -> 3 [] c.kind = "Blue" -> 4 [] c.kind = "Purple" -> 5
      [] c.kind = "Cyan" -> 6 [] c.kind = "White" -> 7

\* The intense form of a colour: the i-th named colour and Fixed(i), i < 8, are
\* Fixed(i + 8); every other colour is itself.
Intense(c) ==
    IF c.kind \in {"Black", "Red", "Green", "Yellow", "Blue", "Purple", "Cyan", "White"}
    THEN [kind |-> "Fixed", v |-> PaletteIndex(c) + 8]
    ELSE IF c.kind = "Fixed" /\ c.v < 8 THEN [kind |-> "Fixed", v |-> c.v + 8]
    ELSE c

(* C21: make_intense has a value for every colour (named, Fixed(0..255), RGB) *)
(* and for every style, with or without a foreground: after one application   *)
(* the foreground is the intense form of the original one (Fixed(i + 8) for   *)
(* the i-th named colour and for Fixed(i), i < 8, not wrapped around; the     *)
(* colour itself otherwise), the rest of the style is as it was, and any      *)
(* further application changes nothing.                                       *)
C21_MakeIntense ==
    /\ applied >= 1 =>
          /\ style.foreground = Intense(original.foreground)
          /\ style.is_bold = original.is_bold
          /\ make_intense(style.foreground) = style.foreground
    /\ style.foreground.kind = "Fixed" => style.foreground.v \in 0..255
    /\ style.foreground \in Colors \cup {NoColor}

\* make_intense was applied twice to a style whose foreground was Fixed(7).
C21_Witness ==
    /\ applied >= 2
    /\ original.foreground = Fixed(7)
    /\ style.foreground = Fixed(15)
=============================================================================
